---- MODULE Spec2Model ----
(***************************************************************************)
(* A model of lib/connection.js: the Connection object of an AMQP 1.0      *)
(* peer.  One Connection is modelled; its fields are the variables below.  *)
(* Every method is an operator from a connection record to the connection  *)
(* record after the call, so that a method that calls another (on_open     *)
(* calls dispatch and open, input calls the frame handlers) is the         *)
(* composition the code performs.  An exception is the field "thrown" of   *)
(* the record: the statements after the throw are not executed and every   *)
(* caller up to the event queue stops.                                     *)
(***************************************************************************)
EXTENDS Integers, Sequences, FiniteSets, TLC

\* ------------------------------------------------------------- bounds
\* Calls made by the application and frames handled, per run.
MaxOps == 5
\* Session objects constructed per run.
MaxSessions == 3
\* Physical channels the peer uses are 0..MaxChannel.
MaxChannel == 1
\* Frames the peer puts on the wire after the protocol header.
MaxFrames == 2

\* null / undefined
Null == -1
NoError == "none"

VARIABLES
    \* fields of the Connection
    registered,          \* this.registered
    state,               \* this.state, the EndpointState
    local_channel_map,   \* this.local_channel_map: local channel -> session
    remote_channel_map,  \* this.remote_channel_map: remote channel -> session
    remote,              \* this.remote: the open / close received
    header_received,     \* this.header_received
    previous_input,      \* this.previous_input: <<>> is null / undefined
    socket,              \* this.socket is set
    pending,             \* this.pending
    sessions,            \* the Session objects, by identity 1..Len(sessions)
    ssn,                 \* session_per_connection's ssn (Null: none yet)
    listeners,           \* EventEmitter: event name -> listeners, in order
    container,           \* this.container is set
    \* the event queue
    ticks,               \* _process callbacks queued by process.nextTick
    pc,                  \* "idle", or "loop" inside _process's do-while
    \* what the connection did
    transport,           \* socket.write / socket.end calls, in order
    handed,              \* buffers pushed on pending or passed to output()
    delivered,           \* listener and container invocations, in order
    calls,               \* Session methods invoked, in order
    dispatched,          \* frames input() handed to performative.dispatch
    header_reads,        \* frames.read_header calls
    passes,              \* _process invocations
    reported,            \* console.log lines of error() and eof()
    thrown,              \* the error the last call threw, or NoError
    last,                \* the last call: its name and the frame it was given
    \* the environment
    wire,                \* bytes the peer sent that no chunk delivered yet
    sent,                \* frames the peer encoded onto the wire
    ops                  \* calls and frames so far

vars == <<registered, state, local_channel_map, remote_channel_map, remote,
          header_received, previous_input, socket, pending, sessions, ssn,
          listeners, container, ticks, pc, transport, handed, delivered, calls,
          dispatched, header_reads, passes, reported, thrown, last, wire, sent,
          ops>>

\* The connection as one record; ret is the value the last method returned.
Cur ==
    [registered |-> registered, state |-> state,
     local_channel_map |-> local_channel_map,
     remote_channel_map |-> remote_channel_map, remote |-> remote,
     header_received |-> header_received, previous_input |-> previous_input,
     socket |-> socket, pending |-> pending, sessions |-> sessions, ssn |-> ssn,
     listeners |-> listeners, container |-> container, ticks |-> ticks,
     pc |-> pc, transport |-> transport, handed |-> handed,
     delivered |-> delivered,
     calls |-> calls, dispatched |-> dispatched, header_reads |-> header_reads,
     passes |-> passes, reported |-> reported, thrown |-> NoError, ret |-> Null]

Become(s) ==
    /\ registered' = s.registered
    /\ state' = s.state
    /\ local_channel_map' = s.local_channel_map
    /\ remote_channel_map' = s.remote_channel_map
    /\ remote' = s.remote
    /\ header_received' = s.header_received
    /\ previous_input' = s.previous_input
    /\ socket' = s.socket
    /\ pending' = s.pending
    /\ sessions' = s.sessions
    /\ ssn' = s.ssn
    /\ listeners' = s.listeners
    /\ container' = s.container
    /\ ticks' = s.ticks
    /\ pc' = s.pc
    /\ transport' = s.transport
    /\ handed' = s.handed
    /\ delivered' = s.delivered
    /\ calls' = s.calls
    /\ dispatched' = s.dispatched
    /\ header_reads' = s.header_reads
    /\ passes' = s.passes
    /\ reported' = s.reported
    /\ thrown' = s.thrown

Throw(s, e) == [s EXCEPT !.thrown = e]
Ok(s) == s.thrown = NoError

\* ------------------------------------------------ EndpointState (endpoint.js)
\* The state tracker: which sides are open, and the open / close requests
\* made locally and not yet written.  Each method gives the tracker after
\* the call (st) and the value returned (ret).
NewEndpointState ==
    [local_open |-> FALSE, remote_open |-> FALSE,
     open_requests |-> 0, close_requests |-> 0]

State_open(st) ==
    IF ~st.local_open
    THEN [st |-> [st EXCEPT !.local_open = TRUE, !.open_requests = @ + 1],
          ret |-> TRUE]
    ELSE [st |-> st, ret |-> FALSE]

State_close(st) ==
    IF st.local_open
    THEN [st |-> [st EXCEPT !.local_open = FALSE, !.close_requests = @ + 1],
          ret |-> TRUE]
    ELSE [st |-> st, ret |-> FALSE]

State_remote_opened(st) ==
    IF ~st.remote_open
    THEN [st |-> [st EXCEPT !.remote_open = TRUE], ret |-> TRUE]
    ELSE [st |-> st, ret |-> FALSE]

State_remote_closed(st) ==
    IF st.remote_open
    THEN [st |-> [st EXCEPT !.remote_open = FALSE], ret |-> TRUE]
    ELSE [st |-> st, ret |-> FALSE]

State_need_open(st) ==
    IF st.open_requests > 0
    THEN [st |-> [st EXCEPT !.open_requests = @ - 1], ret |-> TRUE]
    ELSE [st |-> st, ret |-> FALSE]

State_need_close(st) ==
    IF st.close_requests > 0
    THEN [st |-> [st EXCEPT !.close_requests = @ - 1], ret |-> TRUE]
    ELSE [st |-> st, ret |-> FALSE]

\* Nothing requested is left unwritten.
State_has_settled(st) == st.open_requests = 0 /\ st.close_requests = 0

State_is_open(st) == st.local_open /\ st.remote_open

State_is_closed(st) == ~st.local_open /\ ~st.remote_open

\* ------------------------------------------------------------ buffers
\* A buffer handed to the transport: the protocol header or one frame.
HeaderBuffer == [name |-> "header", channel |-> Null]
FrameBuffer(channel, name) == [name |-> name, channel |-> channel]
Write(buffer) == [op |-> "write", buffer |-> buffer]
End == [op |-> "end", buffer |-> [name |-> "", channel |-> Null]]

RECURSIVE Writes(_)
Writes(buffers) ==
    IF buffers = <<>> THEN <<>>
    ELSE <<Write(Head(buffers))>> \o Writes(Tail(buffers))

\* ---------------------------------------------------------- Connection
is_open(s) == State_is_open(s.state)
is_closed(s) == State_is_closed(s.state)

\* Connection.prototype.dispatch: every local listener of the event, in
\* registration order; the container only when there is none.
EventNames == {"connection_open", "connection_close"}
ToContainer == 0

\* One invocation: who was invoked, and with which arguments.
Invocation(to, name, context) == [to |-> to, name |-> name, context |-> context]

\* A context object: what the caller put in it (Null: nothing), and the
\* connection and container fields _context sets.
Context(of, connection, cont) ==
    [of |-> of, connection |-> connection, container |-> cont]

\* Connection.prototype._context(c), c undefined
_context(s) == Context(Null, TRUE, s.container)

RECURSIVE Emit(_, _, _)
Emit(ls, name, context) ==
    IF ls = <<>> THEN <<>>
    ELSE <<Invocation(Head(ls), name, context)>> \o Emit(Tail(ls), name, context)

\* dispatch that also forwards to the container when listeners were invoked.
dispatch_both(s, name, context) ==
    LET s1 == [s EXCEPT !.delivered = @ \o Emit(s.listeners[name], name, context)]
    IN  IF s.container
        THEN [s1 EXCEPT !.delivered = Append(@, Invocation(ToContainer, name, context))]
        ELSE s1

dispatch(s, name, context) ==
    IF Len(s.listeners[name]) # 0
    THEN [s EXCEPT !.delivered = @ \o Emit(s.listeners[name], name, context)]
    ELSE IF s.container
    THEN [s EXCEPT !.delivered = Append(@, Invocation(ToContainer, name, context))]
    ELSE s

\* Connection.prototype.output.  this.pending is assigned only by init(),
\* together with this.socket: without a socket this.pending is undefined and
\* this.pending.push throws.
output(s, buffer) ==
    LET s0 == [s EXCEPT !.handed = Append(@, buffer)]
    IN  IF s0.socket
        THEN LET s1 == [s0 EXCEPT !.transport = @ \o Writes(s0.pending)
                                                  \o <<Write(buffer)>>,
                                  !.pending = <<>>]
             IN  IF is_closed(s1) THEN [s1 EXCEPT !.transport = Append(@, End)]
                 ELSE s1
        ELSE Throw(s0, "TypeError")

_write_frame(s, channel, name) == output(s, FrameBuffer(channel, name))
_write_open(s) == _write_frame(s, 0, "open")
_write_close(s) == _write_frame(s, 0, "close")

\* _register without its guard: a callback is queued at every call.
_register_unguarded(s) ==
    [s EXCEPT !.registered = TRUE, !.ticks = @ + 1]

\* _register that writes what is requested inline instead of scheduling.
_register_inline(s) ==
    LET o == State_need_open(s.state)
        s0 == [s EXCEPT !.state = o.st]
        s1 == IF o.ret THEN _write_open(s0) ELSE s0
        c == State_need_close(s1.state)
        s2 == [s1 EXCEPT !.state = c.st]
    IN  IF ~Ok(s1) THEN s1
        ELSE IF c.ret THEN _write_close(s2) ELSE s2

_register(s) ==
    IF ~s.registered
    THEN [s EXCEPT !.registered = TRUE, !.ticks = @ + 1]
    ELSE s

open(s) ==
    LET r == State_open(s.state)
        s1 == [s EXCEPT !.state = r.st]
    IN  IF r.ret THEN _register(s1) ELSE s1

close(s) ==
    LET r == State_close(s.state)
        s1 == [s EXCEPT !.state = r.st]
    IN  IF r.ret THEN _register(s1) ELSE s1

\* on_open that does not look at what the tracker answers.
on_open_unchecked(s, frame) ==
    LET r == State_remote_opened(s.state)
        s1 == [s EXCEPT !.state = r.st]
    IN  open(dispatch([s1 EXCEPT !.remote.open = frame.performative],
                      "connection_open", _context(s1)))

on_open(s, frame) ==
    LET r == State_remote_opened(s.state)
        s1 == [s EXCEPT !.state = r.st]
    IN  IF r.ret
        THEN open(dispatch([s1 EXCEPT !.remote.open = frame.performative],
                           "connection_open", _context(s1)))
        ELSE Throw(s1, "Open already received")

on_close(s, frame) ==
    LET r == State_remote_closed(s.state)
        s1 == [s EXCEPT !.state = r.st]
    IN  IF r.ret
        THEN close(dispatch([s1 EXCEPT !.remote.close = frame.performative],
                            "connection_close", _context(s1)))
        ELSE Throw(s1, "Close already received")

\* Connection.prototype.init
init(s) ==
    open([s EXCEPT !.socket = TRUE, !.pending = <<HeaderBuffer>>,
                   !.handed = Append(@, HeaderBuffer)])

\* Connection.prototype.error and eof: a line on the console, nothing else.
error(s) == [s EXCEPT !.reported = Append(@, "error")]
\* eof that reports whatever the state.
eof_unconditional(s) == [s EXCEPT !.reported = Append(@, "disconnected")]

eof(s) ==
    IF ~is_closed(s) THEN [s EXCEPT !.reported = Append(@, "disconnected")] ELSE s


\* ------------------------------------------------- Session (session.js)
\* A Session as the connection sees it: the local channel it was constructed
\* with, the remote_channel field of its local begin, and the frames it has
\* to write at the next pass.
NewSession(channel) ==
    [channel |-> channel, remote_channel |-> Null, out |-> <<>>]

\* session.on_begin / on_end / on_attach / ... (frame)
Session_on(s, id, name, frame) ==
    [s EXCEPT !.calls = Append(@, [session |-> id, name |-> name,
                                   channel |-> frame.channel])]

\* session.begin(): a begin frame to write, at a pass to be scheduled
Session_begin(s, id) ==
    _register([s EXCEPT !.sessions[id].out = Append(@, "begin"),
                        !.calls = Append(@, [session |-> id, name |-> "begin",
                                             channel |-> Null])])

\* session.attach_sender(options) / attach_receiver(options): a link, whose
\* attach frame is to be written at a pass
Session_attach(s, id, name) ==
    _register([s EXCEPT !.sessions[id].out = Append(@, "attach"),
                        !.calls = Append(@, [session |-> id, name |-> name,
                                             channel |-> Null])])

\* session._process(): write the session's own frames, on its channel
RECURSIVE Session_flush(_, _, _)
Session_flush(s, id, out) ==
    IF out = <<>> \/ ~Ok(s) THEN s
    ELSE Session_flush(_write_frame(s, s.sessions[id].channel, Head(out)),
                       id, Tail(out))

Session_process(s, id) ==
    Session_flush([s EXCEPT !.sessions[id].out = <<>>], id, s.sessions[id].out)

\* ---------------------------------------------------- Connection, channels
\* var i = 0; while (this.local_channel_map[i]) i++;
RECURSIVE FirstFree(_, _)
FirstFree(map, i) ==
    IF i \in DOMAIN map THEN FirstFree(map, i + 1) ELSE i

\* create_session that takes the number of sessions as the free channel.
create_session_by_count(s) ==
    LET i == Cardinality(DOMAIN s.local_channel_map)
        session == Len(s.sessions) + 1
    IN  [s EXCEPT !.sessions = Append(@, NewSession(i)),
                  !.local_channel_map = (i :> session) @@ @,
                  !.ret = session]

create_session(s) ==
    LET i == FirstFree(s.local_channel_map, 0)
        session == Len(s.sessions) + 1
    IN  [s EXCEPT !.sessions = Append(@, NewSession(i)),
                  !.local_channel_map = (i :> session) @@ @,
                  !.ret = session]

\* on_begin that leaves the new session's remote_channel field unset.
on_begin_field_unset(s, frame) ==
    LET rc == frame.performative.remote_channel
        s1 == IF rc = Null
              THEN create_session(s)
              ELSE IF rc \in DOMAIN s.local_channel_map
              THEN [s EXCEPT !.ret = s.local_channel_map[rc]]
              ELSE Throw(s, "Invalid value for remote channel")
    IN  IF ~Ok(s1) THEN s1
        ELSE LET s2 == Session_on(s1, s1.ret, "on_begin", frame)
             IN  [s2 EXCEPT !.remote_channel_map = (frame.channel :> s1.ret) @@ @]

\* on_begin that tests the remote-channel field for truth: 0 counts as absent.
on_begin_zero_absent(s, frame) ==
    LET rc == frame.performative.remote_channel
        s1 == IF rc = Null \/ rc = 0
              THEN LET c == create_session(s)
                   IN  [c EXCEPT !.sessions[c.ret].remote_channel = frame.channel]
              ELSE IF rc \in DOMAIN s.local_channel_map
              THEN [s EXCEPT !.ret = s.local_channel_map[rc]]
              ELSE Throw(s, "Invalid value for remote channel")
    IN  IF ~Ok(s1) THEN s1
        ELSE LET s2 == Session_on(s1, s1.ret, "on_begin", frame)
             IN  [s2 EXCEPT !.remote_channel_map = (frame.channel :> s1.ret) @@ @]

on_begin(s, frame) ==
    LET rc == frame.performative.remote_channel
        s1 == IF rc = Null
              THEN LET c == create_session(s)
                   IN  [c EXCEPT !.sessions[c.ret].remote_channel = frame.channel]
              ELSE IF rc \in DOMAIN s.local_channel_map
              THEN [s EXCEPT !.ret = s.local_channel_map[rc]]
              ELSE Throw(s, "Invalid value for remote channel")
    IN  IF ~Ok(s1) THEN s1
        ELSE LET s2 == Session_on(s1, s1.ret, "on_begin", frame)
             IN  [s2 EXCEPT !.remote_channel_map = (frame.channel :> s1.ret) @@ @]

Delegated == {"end", "attach", "detach", "transfer", "disposition", "flow"}

\* delegate_to_session that looks the session up by local channel.
delegate_by_local_channel(s, name, frame) ==
    IF frame.channel \in DOMAIN s.local_channel_map
    THEN Session_on(s, s.local_channel_map[frame.channel], "on_" \o name, frame)
    ELSE Throw(s, name \o " received on invalid channel")

\* delegate_to_session(name): Connection.prototype['on_' + name]
delegate_to_session(s, name, frame) ==
    IF frame.channel \in DOMAIN s.remote_channel_map
    THEN Session_on(s, s.remote_channel_map[frame.channel], "on_" \o name, frame)
    ELSE Throw(s, name \o " received on invalid channel")

\* A session leaves the local channel map (its channel becomes free again).
remove_session(s, k) ==
    [s EXCEPT !.local_channel_map = [c \in DOMAIN @ \ {k} |-> @[c]]]

\* get_session that does not keep the session it created.
get_session_uncached(s) ==
    LET c == create_session(s)
    IN  [Session_begin(c, c.ret) EXCEPT !.ret = c.ret]

\* session_per_connection(conn).get_session
get_session(s) ==
    IF s.ssn = Null
    THEN LET c == create_session(s)
         IN  [Session_begin([c EXCEPT !.ssn = c.ret], c.ret) EXCEPT !.ret = c.ret]
    ELSE [s EXCEPT !.ret = s.ssn]

\* Connection.prototype.attach_sender / attach_receiver
attach_sender(s) ==
    LET g == get_session(s) IN Session_attach(g, g.ret, "attach_sender")
attach_receiver(s) ==
    LET g == get_session(s) IN Session_attach(g, g.ret, "attach_receiver")

\* ------------------------------------------------------------ _process
\* for (var k in this.local_channel_map) this.local_channel_map[k]._process();
\* integer keys are visited in ascending order.
RECURSIVE ProcessSessions(_, _)
ProcessSessions(s, keys) ==
    IF keys = {} \/ ~Ok(s) THEN s
    ELSE LET k == CHOOSE x \in keys : \A y \in keys : x <= y
         IN  ProcessSessions(Session_process(s, s.local_channel_map[k]),
                             keys \ {k})

\* The do-while body with the close written ahead of the open.
ProcessBody_close_first(s) ==
    LET c == State_need_close(s.state)
        s0 == [s EXCEPT !.state = c.st]
        s1 == IF c.ret THEN _write_close(s0) ELSE s0
        s2 == IF Ok(s1) THEN ProcessSessions(s1, DOMAIN s1.local_channel_map)
              ELSE s1
        o == State_need_open(s2.state)
        s3 == [s2 EXCEPT !.state = o.st]
    IN  IF ~Ok(s2) THEN s2
        ELSE IF o.ret THEN _write_open(s3) ELSE s3

\* One iteration of the do-while body.
ProcessBody(s) ==
    LET o == State_need_open(s.state)
        s0 == [s EXCEPT !.state = o.st]
        s1 == IF o.ret THEN _write_open(s0) ELSE s0
        s2 == IF Ok(s1) THEN ProcessSessions(s1, DOMAIN s1.local_channel_map)
              ELSE s1
        c == State_need_close(s2.state)
        s3 == [s2 EXCEPT !.state = c.st]
    IN  IF ~Ok(s2) THEN s2
        ELSE IF c.ret THEN _write_close(s3) ELSE s3

\* The iteration with the loop's test inverted: while (has_settled()).
ProcessIteration_while_settled(s) ==
    LET s1 == ProcessBody(s)
    IN  IF ~Ok(s1) \/ ~State_has_settled(s1.state)
        THEN [s1 EXCEPT !.pc = "idle"]
        ELSE s1

\* The iteration and the loop's test: back to the event queue when the
\* tracker has settled, or when the iteration threw.
ProcessIteration(s) ==
    LET s1 == ProcessBody(s)
    IN  IF ~Ok(s1) \/ State_has_settled(s1.state)
        THEN [s1 EXCEPT !.pc = "idle"]
        ELSE s1

\* The callback starts: this.registered = false, then the loop.
ProcessStart(s) ==
    [s EXCEPT !.registered = FALSE, !.ticks = @ - 1, !.passes = @ + 1,
              !.pc = "loop"]


\* ---------------------------------------------------- codec (frames.js)
\* A frame is [channel, performative]; a performative is its name, its
\* remote_channel (begin) and, for open and close, one field more (info: the
\* container_id of an open, the error of a close); Null when absent.
Performative(name, remote_channel, info) ==
    [name |-> name, remote_channel |-> remote_channel, info |-> info]
NoPerformative == Performative("", Null, Null)
Frame(channel, performative) ==
    [channel |-> channel, performative |-> performative]

\* The descriptor codes of the performatives.
Names == <<"open", "begin", "attach", "flow", "transfer", "disposition",
           "detach", "end", "close">>
Code(name) == 15 + (CHOOSE i \in 1..Len(Names) : Names[i] = name)
NameOf(code) == Names[code - 15]

\* The 8 bytes of the protocol header: "AMQP", protocol id 0, version 1.0.0.
ProtocolHeader == <<65, 77, 81, 80, 0, 1, 0, 0>>

read_header(buffer) ==
    [protocol_id |-> buffer[5], major |-> buffer[6], minor |-> buffer[7],
     revision |-> buffer[8]]

UInt32BE(n) ==
    <<(n \div 16777216) % 256, (n \div 65536) % 256, (n \div 256) % 256, n % 256>>

\* buffer.readUInt32BE(offset), offset counted from 0
readUInt32BE(buffer, offset) ==
    buffer[offset + 1] * 16777216 + buffer[offset + 2] * 65536
        + buffer[offset + 3] * 256 + buffer[offset + 4]

\* A frame on the wire: the 4-byte total length, doff, type, the 2-byte
\* channel, the performative's code and the field it carries, if any.
EncodeFrame(frame) ==
    LET p == frame.performative
        field == IF p.name = "begin" THEN p.remote_channel
                 ELSE IF p.name \in {"open", "close"} THEN p.info ELSE Null
        body == <<2, 0, frame.channel \div 256, frame.channel % 256, Code(p.name)>>
                    \o (IF field = Null THEN <<>> ELSE <<field>>)
    IN  UInt32BE(4 + Len(body)) \o body

read_frame(bytes) ==
    LET name == NameOf(bytes[9])
        field == IF Len(bytes) > 9 THEN bytes[10] ELSE Null
    IN  Frame(bytes[7] * 256 + bytes[8],
              Performative(name,
                           IF name = "begin" THEN field ELSE Null,
                           IF name \in {"open", "close"} THEN field ELSE Null))

\* What read_frame can decode; it throws on anything else.
Decodable(bytes) ==
    /\ Len(bytes) \in {9, 10}
    /\ bytes[5] = 2 /\ bytes[6] = 0
    /\ bytes[9] \in 16..24

RECURSIVE EncodeFrames(_)
EncodeFrames(fs) ==
    IF fs = <<>> THEN <<>> ELSE EncodeFrame(Head(fs)) \o EncodeFrames(Tail(fs))

\* frame.performative.dispatch(connection, frame): connection['on_' + name]
performative_dispatch(s, frame) ==
    LET name == frame.performative.name
    IN  IF name = "open" THEN on_open(s, frame)
        ELSE IF name = "close" THEN on_close(s, frame)
        ELSE IF name = "begin" THEN on_begin(s, frame)
        ELSE delegate_to_session(s, name, frame)

\* ------------------------------------------------------ Connection.input
\* The while loop of input(): offset counts from 0, as in the code.
\* readUInt32BE throws a RangeError when fewer than 4 bytes follow offset.
RECURSIVE ReadFrames(_, _, _)
ReadFrames(s, buffer, offset) ==
    IF ~(offset < Len(buffer)) THEN s
    ELSE IF offset + 4 > Len(buffer) THEN Throw(s, "RangeError")
    ELSE LET frame_size == readUInt32BE(buffer, offset)
         IN  IF Len(buffer) < offset + frame_size
             THEN [s EXCEPT !.previous_input =
                                SubSeq(buffer, offset + 1, Len(buffer))]
             ELSE IF ~Decodable(SubSeq(buffer, offset + 1, offset + frame_size))
             THEN Throw(s, "DecodeError")
             ELSE LET frame == read_frame(SubSeq(buffer, offset + 1,
                                                 offset + frame_size))
                      s1 == performative_dispatch(
                                [s EXCEPT !.dispatched = Append(@, frame)], frame)
                  IN  IF Ok(s1) THEN ReadFrames(s1, buffer, offset + frame_size)
                      ELSE s1

\* if (this.previous_input) reads this.previous, which no code assigns:
\* this.previous.size() throws a TypeError before previous_input is cleared.
input(s, buff) ==
    IF s.previous_input # <<>> THEN Throw(s, "TypeError")
    ELSE IF s.header_received = <<>>
    THEN IF Len(buff) < 8
         THEN [s EXCEPT !.previous_input = buff]
         ELSE ReadFrames([s EXCEPT !.header_received = <<read_header(buff)>>,
                                   !.header_reads = @ + 1], buff, 8)
    ELSE ReadFrames(s, buff, 0)


\* ================================================================ actions
Channels == 0..MaxChannel
\* What a begin's remote-channel field may hold: nothing, or a channel number.
RemoteChannelRefs == {Null} \cup Channels
\* What an open or a close may carry.
Infos == {1, 2}

\* The Connection constructor: the connection before any call.
NewConnection(ls, cont) ==
    [registered |-> FALSE, state |-> NewEndpointState,
     local_channel_map |-> <<>>, remote_channel_map |-> <<>>,
     remote |-> [open |-> NoPerformative, close |-> NoPerformative],
     header_received |-> <<>>, previous_input |-> <<>>,
     socket |-> FALSE, pending |-> <<>>, sessions |-> <<>>, ssn |-> Null,
     listeners |-> ls, container |-> cont, ticks |-> 0, pc |-> "idle",
     transport |-> <<>>, handed |-> <<>>, delivered |-> <<>>, calls |-> <<>>,
     dispatched |-> <<>>, header_reads |-> 0, passes |-> 0,
     reported |-> <<>>, thrown |-> NoError, ret |-> Null]

NoFrame == Frame(Null, NoPerformative)
NoListeners == [e \in EventNames |-> <<>>]

InitConnection(s) ==
    /\ registered = s.registered
    /\ state = s.state
    /\ local_channel_map = s.local_channel_map
    /\ remote_channel_map = s.remote_channel_map
    /\ remote = s.remote
    /\ header_received = s.header_received
    /\ previous_input = s.previous_input
    /\ socket = s.socket
    /\ pending = s.pending
    /\ sessions = s.sessions
    /\ ssn = s.ssn
    /\ listeners = s.listeners
    /\ container = s.container
    /\ ticks = s.ticks
    /\ pc = s.pc
    /\ transport = s.transport
    /\ handed = s.handed
    /\ delivered = s.delivered
    /\ calls = s.calls
    /\ dispatched = s.dispatched
    /\ header_reads = s.header_reads
    /\ passes = s.passes
    /\ reported = s.reported
    /\ thrown = s.thrown
    /\ last = [call |-> "new", frame |-> NoFrame, args |-> <<>>]
    /\ ops = 0

\* A call or a handler, run to its return or its throw.
CallWith(name, frame, args, s) ==
    /\ pc = "idle"
    /\ ops < MaxOps
    /\ Len(s.sessions) <= MaxSessions
    /\ Become(s)
    /\ last' = [call |-> name, frame |-> frame, args |-> args]
    /\ ops' = ops + 1
    /\ UNCHANGED <<wire, sent>>

Call(name, frame, s) == CallWith(name, frame, <<>>, s)

\* dispatch(name, context), called by the application or a collaborator.
Contexts == {Context(1, FALSE, FALSE), Context(2, FALSE, FALSE)}
Dispatch == \E n \in EventNames, c \in Contexts :
    CallWith("dispatch", NoFrame, <<n, c>>, dispatch(Cur, n, c))

\* connect() / accept(socket): the transport is attached once.
Accept == ~socket /\ Call("init", NoFrame, init(Cur))

Open == Call("open", NoFrame, open(Cur))
Close == Call("close", NoFrame, close(Cur))
CreateSession == Call("create_session", NoFrame, create_session(Cur))

RemoveSession == \E k \in DOMAIN local_channel_map :
    Call("remove_session", NoFrame, remove_session(Cur, k))

AttachSender == Call("attach_sender", NoFrame, attach_sender(Cur))
AttachReceiver == Call("attach_receiver", NoFrame, attach_receiver(Cur))

\* A frame the peer sent, handed to its handler.
OnOpen == \E i \in Infos :
    LET frame == Frame(0, Performative("open", Null, i))
    IN  socket /\ Call("on_open", frame, on_open(Cur, frame))
OnClose == \E i \in Infos :
    LET frame == Frame(0, Performative("close", Null, i))
    IN  socket /\ Call("on_close", frame, on_close(Cur, frame))
OnBegin == \E c \in Channels, r \in RemoteChannelRefs :
    LET frame == Frame(c, Performative("begin", r, Null))
    IN  socket /\ Call("on_begin", frame, on_begin(Cur, frame))
OnDelegated == \E c \in Channels, n \in Delegated :
    LET frame == Frame(c, Performative(n, Null, Null))
    IN  socket /\ Call("on_" \o n, frame, delegate_to_session(Cur, n, frame))

\* The transport's events reach the connection when no callback is queued.
Eof == socket /\ ticks = 0 /\ Call("eof", NoFrame, eof(Cur))
Error == socket /\ ticks = 0 /\ Call("error", NoFrame, error(Cur))

\* A chunk of the bytes on the wire arrives.
Input == \E n \in 1..Len(wire) :
    /\ socket /\ ticks = 0 /\ pc = "idle"
    /\ LET s == input(Cur, SubSeq(wire, 1, n))
       IN  Len(s.sessions) <= MaxSessions /\ Become(s)
    /\ wire' = SubSeq(wire, n + 1, Len(wire))
    /\ last' = [call |-> "input", frame |-> NoFrame, args |-> <<>>]
    /\ UNCHANGED <<sent, ops>>

\* The event queue runs the callback process.nextTick queued.
Process ==
    /\ pc = "idle" /\ ticks > 0
    /\ Become(ProcessStart(Cur))
    /\ last' = [call |-> "_process", frame |-> NoFrame, args |-> <<>>]
    /\ UNCHANGED <<wire, sent, ops>>

\* One iteration of _process's loop.
Iterate ==
    /\ pc = "loop"
    /\ Become(ProcessIteration(Cur))
    /\ last' = [call |-> "_process", frame |-> NoFrame, args |-> <<>>]
    /\ UNCHANGED <<wire, sent, ops>>

\* ---------------------------------------------------------- specifications
\* The life cycle: open and close from both sides, and the passes.
InitLife ==
    /\ \E ls \in [EventNames -> {<<>>, <<1>>}], cont \in BOOLEAN :
           InitConnection(NewConnection(ls, cont))
    /\ wire = <<>>
    /\ sent = <<>>

NextLife ==
    \/ Accept \/ Open \/ Close \/ OnOpen \/ OnClose \/ Eof \/ Error
    \/ Process \/ Iterate

SpecLife == InitLife /\ [][NextLife]_vars


\* Events: dispatch, with the listeners registered in either order.
ListenerLists == {<<>>, <<1>>, <<1, 2>>, <<2, 1>>}

InitDispatch ==
    /\ \E ls \in [EventNames -> ListenerLists], cont \in BOOLEAN :
           InitConnection(NewConnection(ls, cont))
    /\ wire = <<>>
    /\ sent = <<>>

NextDispatch == Dispatch

SpecDispatch == InitDispatch /\ [][NextDispatch]_vars


\* The channels: sessions created locally and by the peer's begin, frames
\* routed to them.
InitMux ==
    /\ InitConnection(NewConnection(NoListeners, FALSE))
    /\ wire = <<>>
    /\ sent = <<>>

NextMux ==
    \/ Accept \/ CreateSession \/ RemoveSession \/ OnBegin \/ OnDelegated
    \/ Process \/ Iterate

SpecMux == InitMux /\ [][NextMux]_vars

\* Links: attach_sender and attach_receiver on the default session, next to
\* sessions the application creates itself.
NextAttach ==
    \/ Accept \/ CreateSession \/ AttachSender \/ AttachReceiver
    \/ Process \/ Iterate

SpecAttach == InitMux /\ [][NextAttach]_vars

\* The passes: every call that schedules one, on a connection with a default
\* session.
NextPass ==
    \/ Accept \/ Open \/ Close \/ OnOpen \/ OnClose \/ AttachSender
    \/ Process \/ Iterate

SpecPass == InitMux /\ [][NextPass]_vars

\* The byte stream: the peer's header and frames, delivered in chunks.
WireFrames ==
    {Frame(0, Performative("open", Null, 1)),
     Frame(0, Performative("close", Null, Null))}
    \cup {Frame(c, Performative("begin", r, Null)) : c \in Channels, r \in {Null, 0}}
    \cup {Frame(c, Performative("transfer", Null, Null)) : c \in Channels}

SeqsUpTo(S, n) == UNION {[1..k -> S] : k \in 0..n}

InitInput ==
    /\ InitConnection(NewConnection(NoListeners, FALSE))
    /\ sent \in SeqsUpTo(WireFrames, MaxFrames)
    /\ wire = ProtocolHeader \o EncodeFrames(sent)

NextInput == Accept \/ Input \/ Process \/ Iterate

SpecInput == InitInput /\ [][NextInput]_vars


\* ================================================================= claims
\* The whole byte stream of the peer, and the connection that is fed it as
\* one chunk right after init().
WholeStream == ProtocolHeader \o EncodeFrames(sent)
SingleChunk == input(init(NewConnection(NoListeners, FALSE)), WholeStream)

\* The buffers written to the transport, in order.
Written(log) ==
    LET w == SelectSeq(log, LAMBDA e : e.op = "write")
    IN  [i \in 1..Len(w) |-> w[i].buffer]

\* What dispatch owes an event: each local listener, else the container.
Fanout(name, context) ==
    IF listeners[name] # <<>>
    THEN [i \in 1..Len(listeners[name])
             |-> Invocation(listeners[name][i], name, context)]
    ELSE IF container THEN <<Invocation(ToContainer, name, context)>>
    ELSE <<>>

\* The smallest non-negative integer that is no key of the map.
LowestFree(map) ==
    CHOOSE i \in 0..Cardinality(DOMAIN map) :
        i \notin DOMAIN map /\ \A j \in 0..(i - 1) : j \in DOMAIN map

\* C1 (chunking independence): once every byte of the stream has been
\* delivered, in whatever chunks, the frames dispatched are exactly the frames
\* the peer sent, in order, each once: what feeding the stream as a single
\* chunk dispatches.  Stated for the streams whose frames no handler rejects.
ChunkingIndependence ==
    (wire = <<>> /\ Ok(SingleChunk))
        => dispatched = sent /\ dispatched = SingleChunk.dispatched

\* C2 (header gate): no frame is dispatched before the header is parsed, the
\* header is parsed at most once, and once 8 bytes or more have been
\* delivered, in whatever chunks, it has been parsed, exactly once, from the
\* first 8 bytes of the stream.
HeaderGate ==
    /\ dispatched # <<>> => header_received # <<>>
    /\ header_reads <= 1
    /\ Len(WholeStream) - Len(wire) >= 8
           => /\ header_reads = 1
              /\ header_received = <<read_header(ProtocolHeader)>>


\* The frame and the channel of the call that led to the state after a step.
IsBegin(call) == call.call = "on_begin"
IsPeerBegin(call) == IsBegin(call) /\ call.frame.performative.remote_channel = Null
IsReferringBegin(call) == IsBegin(call) /\ call.frame.performative.remote_channel # Null
IsDelegated(call) == call.call \in {"on_" \o n : n \in Delegated}

\* The map with one key set.
With(map, k, v) == [c \in DOMAIN map \cup {k} |-> IF c = k THEN v ELSE map[c]]

\* C3 (channel allocation): every step that constructs a session gives it the
\* smallest non-negative integer that is no key of local_channel_map and
\* registers it under that key, leaving the other keys alone; each session in
\* the map is under its own channel number, so no two of them share one.
ChannelAllocation ==
    /\ [](\A c \in DOMAIN local_channel_map :
             sessions[local_channel_map[c]].channel = c)
    /\ [][Len(sessions') > Len(sessions)
             => LET id == Len(sessions')
                    ch == sessions'[id].channel
                IN  /\ Len(sessions') = Len(sessions) + 1
                    /\ ch = LowestFree(local_channel_map)
                    /\ local_channel_map' = With(local_channel_map, ch, id)]_vars

\* C3's case: channels 0..N-1 were given out, session k was removed, and the
\* session created next sits on channel k, below a channel still in use.
FreedChannelReused ==
    /\ last.call = "create_session"
    /\ \E k \in DOMAIN local_channel_map :
          /\ local_channel_map[k] = Len(sessions)
          /\ (k + 1) \in DOMAIN local_channel_map
          /\ \E i \in 1..(Len(sessions) - 1) : sessions[i].channel = k

\* C4 (routing): a channel is a key of remote_channel_map exactly when a begin
\* was handled on it; an end, attach, detach, transfer, disposition or flow on
\* channel c is handed to the session remote_channel_map[c] and to no other,
\* and when c is no key the handler throws and no session method is invoked.
RoutingCorrectness ==
    /\ [](\A c \in Channels :
             c \in DOMAIN remote_channel_map
                 <=> \E i \in 1..Len(calls) :
                        calls[i].name = "on_begin" /\ calls[i].channel = c)
    /\ [][IsDelegated(last')
             => LET c == last'.frame.channel
                IN  IF c \in DOMAIN remote_channel_map
                    THEN /\ thrown' = NoError
                         /\ calls' = Append(calls,
                                [session |-> remote_channel_map[c],
                                 name |-> last'.call, channel |-> c])
                    ELSE /\ thrown' # NoError
                         /\ calls' = calls]_vars

\* C4's case: two channels bound to different sessions, a frame on the second
\* handed to the second's session.
RoutedAmongTwo ==
    /\ IsDelegated(last) /\ thrown = NoError
    /\ DOMAIN remote_channel_map = {0, 1}
    /\ remote_channel_map[0] # remote_channel_map[1]
    /\ calls[Len(calls)].session = remote_channel_map[1]
    /\ sessions[remote_channel_map[1]].channel # 1

\* C5 (peer-initiated begin): a begin without a remote-channel reference
\* creates exactly one session, on the lowest free local channel, sets that
\* session's remote_channel field to the frame's channel, invokes its on_begin
\* and binds the frame's channel to it in remote_channel_map.
PeerInitiatedBegin ==
    [][IsPeerBegin(last')
          => LET c == last'.frame.channel
                 id == Len(sessions) + 1
                 ch == LowestFree(local_channel_map)
             IN  /\ thrown' = NoError
                 /\ Len(sessions') = id
                 /\ SubSeq(sessions', 1, Len(sessions)) = sessions
                 /\ sessions'[id].channel = ch
                 /\ sessions'[id].remote_channel = c
                 /\ local_channel_map' = With(local_channel_map, ch, id)
                 /\ remote_channel_map' = With(remote_channel_map, c, id)
                 /\ calls' = Append(calls, [session |-> id, name |-> "on_begin",
                                            channel |-> c])]_vars

\* C5's case: the peer began on channel 1 and the session it got is on local
\* channel 0.
PeerBeganOnOne ==
    /\ IsPeerBegin(last) /\ thrown = NoError
    /\ last.frame.channel = 1
    /\ sessions[remote_channel_map[1]].channel = 0
    /\ sessions[remote_channel_map[1]].remote_channel = 1

\* C6 (begin with a reference r, 0 included): when r is a key of
\* local_channel_map no session is created and the frame's channel is bound to
\* local_channel_map[r]; when it is not, on_begin throws and both maps are
\* as before.
BeginWithReference ==
    [][IsReferringBegin(last')
          => LET c == last'.frame.channel
                 r == last'.frame.performative.remote_channel
             IN  IF r \in DOMAIN local_channel_map
                 THEN /\ thrown' = NoError
                      /\ sessions' = sessions
                      /\ local_channel_map' = local_channel_map
                      /\ remote_channel_map'
                            = With(remote_channel_map, c, local_channel_map[r])
                      /\ calls' = Append(calls,
                            [session |-> local_channel_map[r],
                             name |-> "on_begin", channel |-> c])
                 ELSE /\ thrown' # NoError
                      /\ sessions' = sessions
                      /\ local_channel_map' = local_channel_map
                      /\ remote_channel_map' = remote_channel_map
                      /\ calls' = calls]_vars

\* C6's case: a begin on channel 1 that refers to local channel 0.
BoundByReferenceZero ==
    /\ IsReferringBegin(last) /\ thrown = NoError
    /\ last.frame.performative.remote_channel = 0
    /\ last.frame.channel = 1
    /\ remote_channel_map[1] = local_channel_map[0]

\* C7 (remote_channel_map is written once per channel): a channel that is
\* bound stays bound to the same session at every step.
RemoteChannelBoundOnce ==
    [][\A c \in DOMAIN remote_channel_map :
          /\ c \in DOMAIN remote_channel_map'
          /\ remote_channel_map'[c] = remote_channel_map[c]]_vars


\* An open and then a close were requested and neither is written yet.
OpenThenClosePending ==
    /\ state.open_requests = 1
    /\ state.close_requests = 1
    /\ ~state.local_open

Count(seq, x) == Cardinality({i \in 1..Len(seq) : seq[i] = x})

OnePassOutstanding ==
    /\ ticks <= 1
    /\ registered <=> ticks = 1

\* C9's case: open(), close() and open() again, all made while the pass the
\* first of them scheduled is still outstanding.
ThreeRequestsOnePass ==
    /\ ticks = 1 /\ registered /\ passes = 0
    /\ state.open_requests = 2 /\ state.close_requests = 1

\* C10 (a duplicate remote open or close): on_open with the remote side
\* already marked open throws and changes neither remote nor the tracker,
\* dispatches nothing and schedules nothing; an on_open that is accepted
\* records the performative and dispatches connection_open once to each
\* receiver.  The same for on_close, with the remote side not marked open.
DuplicateRemoteIsFatal ==
    [][/\ last'.call = "on_open"
          => IF state.remote_open
             THEN /\ thrown' = "Open already received"
                  /\ remote' = remote /\ state' = state
                  /\ delivered' = delivered
                  /\ ticks' = ticks /\ registered' = registered
             ELSE /\ thrown' = NoError
                  /\ remote' = [remote EXCEPT !.open = last'.frame.performative]
                  /\ delivered' = delivered \o Fanout("connection_open", _context(Cur))
       /\ last'.call = "on_close"
          => IF ~state.remote_open
             THEN /\ thrown' = "Close already received"
                  /\ remote' = remote /\ state' = state
                  /\ delivered' = delivered
                  /\ ticks' = ticks /\ registered' = registered
             ELSE /\ thrown' = NoError
                  /\ remote' = [remote EXCEPT !.close = last'.frame.performative]
                  /\ delivered' = delivered \o Fanout("connection_close", _context(Cur))]_vars

\* C10's case: a second open, carrying another container id, was refused
\* after the first had been recorded and announced.
SecondOpenRefused ==
    /\ last.call = "on_open" /\ thrown = "Open already received"
    /\ remote.open.info = 1 /\ last.frame.performative.info = 2
    /\ delivered # <<>>

\* The socket.end() calls among the transport's calls.
Ends(log) == Cardinality({i \in 1..Len(log) : log[i] = End})

\* No callback is queued and none is running: the connection does nothing
\* more until it is called again.
Quiescent == pc = "idle" /\ ticks = 0

\* C11 (output ordering): the buffers written to the transport, followed by
\* those still in pending, are the buffers pushed on pending or passed to
\* output(), in that order; the protocol header is the first buffer written
\* and is written once.
OutputOrdering ==
    /\ Written(transport) \o pending = handed
    /\ Written(transport) # <<>> => Written(transport)[1] = HeaderBuffer
    /\ Count(Written(transport), HeaderBuffer) <= 1

\* C12 (transport end on close): a connection with a transport that has
\* reached its closed state and has nothing more to run has ended the
\* transport; and every socket.end() comes with pending empty, after every
\* buffer handed over so far has been written.
TransportEndOnClose ==
    /\ []((socket /\ is_closed(Cur) /\ Quiescent) => Ends(transport) > 0)
    /\ [][Ends(transport') > Ends(transport)
             => pending' = <<>> /\ Written(transport') = handed']_vars

\* C13 (partial data is never an error): input() throws neither a RangeError
\* nor a TypeError wherever a chunk ends; and while no handler has thrown, the
\* frames dispatched, the leftover and the bytes still to arrive are together
\* the peer's stream, the leftover being the unconsumed start of one frame.
PartialDataNoError ==
    /\ thrown \notin {"RangeError", "TypeError"}
    /\ (thrown = NoError /\ header_received # <<>>)
           => /\ EncodeFrames(dispatched) \o previous_input \o wire
                     = EncodeFrames(sent)
              /\ \/ Len(previous_input) < 4
                 \/ Len(previous_input) < readUInt32BE(previous_input, 0)

\* C14 (dispatch fallback): dispatch(name, context) invokes every local
\* listener of name, in registration order, with that name and context, and
\* not the container; with no local listener it invokes the container, once,
\* with the same name and context; with neither it invokes nothing.  It
\* changes nothing else of the connection.
DispatchFallback ==
    [][last'.call = "dispatch"
          => LET name == last'.args[1]
                 context == last'.args[2]
                 ls == listeners[name]
                 new == SubSeq(delivered', Len(delivered) + 1, Len(delivered'))
             IN  /\ SubSeq(delivered', 1, Len(delivered)) = delivered
                 /\ thrown' = NoError
                 /\ IF ls # <<>>
                    THEN /\ Len(new) = Len(ls)
                         /\ \A i \in 1..Len(ls) :
                               new[i] = Invocation(ls[i], name, context)
                    ELSE IF container
                    THEN new = <<Invocation(ToContainer, name, context)>>
                    ELSE new = <<>>
                 /\ \A i \in 1..Len(new) :
                       new[i].to = ToContainer => ls = <<>>
                 /\ listeners' = listeners /\ container' = container
                 /\ state' = state /\ ticks' = ticks]_vars

\* C14's case: a connection with a container and two listeners, registered
\* 2 then 1, dispatched an event to the two in that order and not to the
\* container; an event without listeners went to the container.
ListenersThenContainer ==
    /\ container
    /\ listeners["connection_open"] = <<2, 1>>
    /\ listeners["connection_close"] = <<>>
    /\ delivered = <<Invocation(2, "connection_open", Context(2, FALSE, FALSE)),
                     Invocation(1, "connection_open", Context(2, FALSE, FALSE)),
                     Invocation(ToContainer, "connection_close",
                                Context(1, FALSE, FALSE))>>

\* The Session methods of one name invoked so far.
CallsNamed(names) == SelectSeq(calls, LAMBDA e : e.name \in names)
Attaches == {"attach_sender", "attach_receiver"}
SessionCall(id, name) == [session |-> id, name |-> name, channel |-> Null]

\* C15 (default session): the first attach_sender() or attach_receiver()
\* creates one session, keeps it and calls begin() on it; every later one
\* creates none and calls begin() on none; each is handed to that session.
\* So begin() is called at most once and every attach went to one session.
DefaultSession ==
    /\ [](/\ Len(CallsNamed({"begin"})) <= 1
          /\ \A i \in 1..Len(calls) :
                calls[i].name \in Attaches \cup {"begin"}
                    => calls[i].session = ssn)
    /\ [][last'.call \in Attaches
             => IF ssn = Null
                THEN /\ Len(sessions') = Len(sessions) + 1
                     /\ ssn' = Len(sessions')
                     /\ calls' = calls \o <<SessionCall(ssn', "begin"),
                                            SessionCall(ssn', last'.call)>>
                ELSE /\ Len(sessions') = Len(sessions)
                     /\ ssn' = ssn
                     /\ local_channel_map' = local_channel_map
                     /\ calls' = Append(calls, SessionCall(ssn, last'.call))]_vars

\* C15's case: after a session of the application's own, a sender, a
\* receiver and a sender were attached: one more session, begun once.
ThreeAttachesOneSession ==
    /\ Len(sessions) = 2 /\ ssn = 2
    /\ calls = <<SessionCall(2, "begin"), SessionCall(2, "attach_sender"),
                 SessionCall(2, "attach_receiver"),
                 SessionCall(2, "attach_sender")>>

\* What eof() and error() must leave alone.
Untouched ==
    <<state, local_channel_map, remote_channel_map, pending, transport,
      registered, ticks, sessions>>

\* C16 (disconnect reporting): eof() reports a disconnect exactly when the
\* connection is not in its closed state; error() logs the error; neither
\* changes the lifecycle state, the channel maps, the pending output, what
\* was written or what is scheduled.
DisconnectReporting ==
    [][/\ last'.call = "eof"
          => /\ reported' = IF is_closed(Cur) THEN reported
                            ELSE Append(reported, "disconnected")
             /\ UNCHANGED Untouched
       /\ last'.call = "error"
          => /\ reported' = Append(reported, "error")
             /\ UNCHANGED Untouched]_vars

\* C16's case: the transport ended twice, first with the connection open on
\* this side, then with it closed: one report.
EofWhenClosedUnreported ==
    /\ last.call = "eof" /\ is_closed(Cur) /\ socket
    /\ reported = <<"disconnected">>

\* The open and close requests the tracker holds unwritten.
Outstanding(st) == st.open_requests + st.close_requests

LifecycleFrameOrdering ==
    LET w == Written(transport)
    IN  /\ Count(w, FrameBuffer(0, "open")) <= 1
        /\ Count(w, FrameBuffer(0, "close")) <= 1
        /\ \A i \in 1..Len(w) :
              w[i] \notin {HeaderBuffer, FrameBuffer(0, "open")}
                  => \E j \in 1..(i - 1) : w[j] = FrameBuffer(0, "open")
        /\ \A i \in 1..Len(w) : w[i] = FrameBuffer(0, "close") => i = Len(w)

\* C19 (no write after end): the transport is ended at most once, and
\* socket.end() is the last call made on it.
NoWriteAfterEnd ==
    /\ Ends(transport) <= 1
    /\ \A i \in 1..Len(transport) : transport[i] = End => i = Len(transport)

\* Nothing is left for a pass to write.
Flushed ==
    /\ Outstanding(state) = 0
    /\ \A k \in DOMAIN local_channel_map : sessions[local_channel_map[k]].out = <<>>

\* C20 (deferred, never inline): open(), close(), on_open and on_close make
\* no call on the transport and leave pending as it is; what they schedule
\* is a callback, which has not run when they return; the transport is
\* written only by an iteration of a pass; and a pass that returns without
\* a throw has left nothing requested unwritten.
DeferredNeverInline ==
    [][/\ last'.call \in {"open", "close", "on_open", "on_close"}
          => /\ transport' = transport /\ pending' = pending
             /\ passes' = passes /\ pc' = "idle"
             /\ ticks' = IF registered' /\ ~registered THEN ticks + 1 ELSE ticks
       /\ transport' # transport => pc = "loop" /\ last'.call = "_process"
       /\ (pc = "loop" /\ pc' = "idle" /\ thrown' = NoError) => Flushed']_vars

\* C20's case: on a connection whose first pass has run, the peer's open, an
\* attach_sender() and a close() came in one unit of work: nothing of them is
\* written yet, and one callback is queued.
UnitOfWorkUnwritten ==
    /\ last.call = "close" /\ passes = 1 /\ ticks = 1
    /\ remote.open # NoPerformative
    /\ ssn # Null /\ sessions[ssn].out = <<"begin", "attach">>
    /\ state.close_requests = 1
    /\ Written(transport) = <<HeaderBuffer, FrameBuffer(0, "open")>>

\* C20's case, the pass that follows: the begin, the attach and the close
\* written together, in that order, by the second pass.
UnitOfWorkFlushed ==
    /\ last.call = "_process" /\ passes = 2 /\ pc = "idle" /\ ticks = 0
    /\ remote.open # NoPerformative
    /\ Written(transport)
          = <<HeaderBuffer, FrameBuffer(0, "open"), FrameBuffer(0, "begin"),
              FrameBuffer(0, "attach"), FrameBuffer(0, "close")>>

====
